---- MODULE Spec2Model ----
(***************************************************************************)
(* Streaming CSV input format: InputFormatCSV::align cuts a byte stream    *)
(* that arrives in chunks into RowBatches of complete records, and         *)
(* InputFormatCSV::deserialize decodes the fields of a RowBatch into the   *)
(* column builders.  Bytes are one-character strings.                      *)
(***************************************************************************)
EXTENDS Integers, Sequences, FiniteSets, TLC

VARIABLES
    ctx,        \* InputContext: schema width, header rows, record delimiter, settings
    rest,       \* bytes of the stream not yet handed to align
    state,      \* AligningState (with its CsvReaderState)
    output,     \* RowBatches returned by align so far and not yet deserialized
    emitted,    \* every RowBatch returned by align so far, in order
    error,      \* NoError, or the ErrorCode returned by the failing call
    columns,    \* BlockBuilder.mutable_columns: one sequence of values per column
    last        \* the last call: its operation and the batches it returned or took

vars == <<ctx, rest, state, output, emitted, error, columns, last>>

-----------------------------------------------------------------------------
(* Bounds of the model *)

MaxLen == 4        \* longest stream of Spec
MaxHdr == 6        \* longest stream of SpecHeader
MaxWide == 8       \* longest stream of SpecWide
MaxCells == 3      \* most data fields of a stream of SpecDecode
MaxSkip == 2       \* most header rows to skip

(* Program constants *)

EndsSlack == 6     \* field_ends: vec![0; num_fields + 6]

DELIM == ","
QUOTE == "\""
LF == "\n"
CR == "\r"
SP == " "

TOO_FEW == "expect fields, only found"
TOO_MANY == "too many fields"
ENDS_FULL == "too many fields, got more than"
AFTER_TRAILING == "CSV allow ending with ',', but should not have data after it"

\* An error message: its text and, for a column error, the column and its bytes.
Plain(text) == [text |-> text, column |-> 0, col_data |-> <<>>]

NoError == [msg |-> Plain(""), row |-> 0]

-----------------------------------------------------------------------------
(* Generic helpers *)

Min(a, b) == IF a < b THEN a ELSE b

Take(s, n) == SubSeq(s, 1, n)

Drop(s, n) == SubSeq(s, n + 1, Len(s))

RECURSIVE SeqsUpTo(_, _)
SeqsUpTo(S, n) ==
    IF n = 0 THEN {<<>>}
    ELSE LET shorter == SeqsUpTo(S, n - 1)
         IN shorter \cup {Append(s, x) : s \in {t \in shorter : Len(t) = n - 1}, x \in S}

-----------------------------------------------------------------------------
(* csv_core::Reader, as configured by CsvReaderState::create: delimiter,   *)
(* quote, terminator; double_quote on, no escape byte, no comment byte.    *)

TermEquals(term, c) ==
    IF term = "CRLF" THEN c = CR \/ c = LF ELSE c = LF

\* One NFA transition: <<next state, action>>.
transition_nfa(term, s, c) ==
    CASE s = "StartRecord" ->
            IF TermEquals(term, c) THEN <<"StartRecord", "Discard">>
            ELSE <<"StartField", "Epsilon">>
      [] s = "EndRecord" -> <<"StartRecord", "Epsilon">>
      [] s = "StartField" ->
            IF c = QUOTE THEN <<"InQuotedField", "Discard">>
            ELSE IF c = DELIM THEN <<"EndFieldDelim", "Discard">>
            ELSE IF TermEquals(term, c) THEN <<"EndFieldTerm", "Epsilon">>
            ELSE <<"InField", "CopyToOutput">>
      [] s = "EndFieldDelim" -> <<"StartField", "Epsilon">>
      [] s = "EndFieldTerm" -> <<"InRecordTerm", "Epsilon">>
      [] s = "InRecordTerm" ->
            IF term = "CRLF" /\ c = CR THEN <<"CRLF", "Discard">>
            ELSE <<"EndRecord", "Discard">>
      [] s = "CRLF" ->
            IF c = LF THEN <<"StartRecord", "Discard">>
            ELSE <<"StartRecord", "Epsilon">>
      [] s = "InField" ->
            IF c = DELIM THEN <<"EndFieldDelim", "Discard">>
            ELSE IF TermEquals(term, c) THEN <<"EndFieldTerm", "Epsilon">>
            ELSE <<"InField", "CopyToOutput">>
      [] s = "InQuotedField" ->
            IF c = QUOTE THEN <<"InDoubleEscapedQuote", "Discard">>
            ELSE <<"InQuotedField", "CopyToOutput">>
      [] s = "InDoubleEscapedQuote" ->
            IF c = QUOTE THEN <<"InQuotedField", "CopyToOutput">>
            ELSE IF c = DELIM THEN <<"EndFieldDelim", "Discard">>
            ELSE IF TermEquals(term, c) THEN <<"EndFieldTerm", "Epsilon">>
            ELSE <<"InField", "CopyToOutput">>

\* The DFA transition: NFA transitions are followed until one consumes the byte.
RECURSIVE get_output(_, _, _)
get_output(term, s, c) ==
    LET r == transition_nfa(term, s, c)
    IN IF r[2] = "Epsilon" THEN get_output(term, r[1], c)
       ELSE [state |-> r[1], has_out |-> r[2] = "CopyToOutput"]

IsFinalField(s) == s \in {"EndFieldDelim", "EndRecord", "CRLF"}

IsFinalRecord(s) == s \in {"EndRecord", "CRLF"}

\* State after the end of the input has been signalled by an empty slice.
transition_final_dfa(s) ==
    IF IsFinalRecord(s) \/ s = "StartRecord" THEN "StartRecord" ELSE "EndRecord"

new_read_record_result(s, is_final_trans, inpdone, outdone, endsdone) ==
    IF IsFinalRecord(s) THEN "Record"
    ELSE IF is_final_trans /\ s = "StartRecord" THEN "End"
    ELSE IF ~inpdone /\ outdone THEN "OutputFull"
    ELSE IF ~inpdone /\ endsdone THEN "OutputEndsFull"
    ELSE "InputEmpty"

\* One byte c of the scanning loop: t is the DFA transition taken on it.
read_byte(rd, acc, c, t) ==
    [state |-> t.state,
     nin |-> acc.nin + 1,
     out |-> IF t.has_out THEN Append(acc.out, c) ELSE acc.out,
     ends |-> IF IsFinalField(t.state)
              THEN Append(acc.ends, rd.output_pos + Len(acc.out)
                                    + (IF t.has_out THEN 1 ELSE 0))
              ELSE acc.ends]

\* The scanning loop of read_record: acc = [state, nin, out, ends].
RECURSIVE read_loop(_, _, _, _, _)
RECURSIVE read_next(_, _, _, _, _)
read_loop(rd, input, outcap, endscap, acc) ==
    IF acc.nin < Len(input) /\ Len(acc.out) < outcap /\ Len(acc.ends) < endscap
    THEN read_next(rd, input, outcap, endscap,
                   read_byte(rd, acc, input[acc.nin + 1],
                             get_output(rd.term, acc.state, input[acc.nin + 1])))
    ELSE acc

\* The loop stops on the byte that completes a record.
read_next(rd, input, outcap, endscap, acc) ==
    IF IsFinalRecord(acc.state) THEN acc
    ELSE read_loop(rd, input, outcap, endscap, acc)

\* What read_record returns when its scanning loop has stopped in acc.
read_record_return(rd, input, outcap, endscap, acc, res) ==
    [result |-> res, n_in |-> acc.nin, out |-> acc.out, ends |-> acc.ends,
     rd |-> [rd EXCEPT !.dfa_state = acc.state,
                       !.output_pos = IF res = "Record" THEN 0
                                      ELSE rd.output_pos + Len(acc.out)]]

read_record_scanned(rd, input, outcap, endscap, acc) ==
    read_record_return(rd, input, outcap, endscap, acc,
                       new_read_record_result(acc.state, FALSE,
                                              acc.nin >= Len(input),
                                              Len(acc.out) >= outcap,
                                              Len(acc.ends) >= endscap))

\* What read_record returns for an empty input, the reader having moved to
\* the final state s.
read_record_final(rd, endscap, s, res) ==
    IF res = "Record" THEN
        IF endscap = 0
        THEN [result |-> "OutputEndsFull", n_in |-> 0, out |-> <<>>,
              ends |-> <<>>, rd |-> [rd EXCEPT !.dfa_state = s]]
        ELSE [result |-> "Record", n_in |-> 0, out |-> <<>>,
              ends |-> <<rd.output_pos>>,
              rd |-> [rd EXCEPT !.dfa_state = s, !.output_pos = 0]]
    ELSE [result |-> res, n_in |-> 0, out |-> <<>>, ends |-> <<>>,
          rd |-> [rd EXCEPT !.dfa_state = s]]

\* read_record(input, output, ends): rd is the reader (term, dfa_state,
\* output_pos); outcap and endscap are the lengths of the output and ends
\* slices.  Returns the result tag, the bytes consumed, the bytes written,
\* the field ends recorded and the reader afterwards.
read_record(rd, input, outcap, endscap) ==
    IF Len(input) = 0 THEN
        read_record_final(rd, endscap, transition_final_dfa(rd.dfa_state),
                          new_read_record_result(transition_final_dfa(rd.dfa_state),
                                                 TRUE, FALSE, FALSE, FALSE))
    ELSE IF outcap = 0 THEN
        [result |-> "OutputFull", n_in |-> 0, out |-> <<>>, ends |-> <<>>, rd |-> rd]
    ELSE IF endscap = 0 THEN
        [result |-> "OutputEndsFull", n_in |-> 0, out |-> <<>>, ends |-> <<>>, rd |-> rd]
    ELSE
        read_record_scanned(rd, input, outcap, endscap,
                            read_loop(rd, input, outcap, endscap,
                                      [state |-> rd.dfa_state, nin |-> 0,
                                       out |-> <<>>, ends |-> <<>>]))

-----------------------------------------------------------------------------
(* CsvReaderState and AligningState *)

CsvReaderState_create(nf, delim) ==
    [reader |-> [term |-> delim, dfa_state |-> "StartRecord", output_pos |-> 0],
     out |-> <<>>,
     field_ends |-> [i \in 1..(nf + EndsSlack) |-> 0],
     n_end |-> 0]

AligningState_create(c) ==
    [num_fields |-> c.num_fields,
     rows |-> 0,
     rows_to_skip |-> c.rows_to_skip,
     batch_id |-> 0,
     offset |-> 0,
     csv_reader |-> CsvReaderState_create(c.num_fields, c.record_delimiter)]

csv_error(msg, row) == [msg |-> msg, row |-> row + 1]

\* read_record writes the field ends it finds into field_ends[endlen..].
WriteEnds(field_ends, endlen, ends) ==
    [i \in 1..Len(field_ends) |->
        IF i > endlen /\ i <= endlen + Len(ends) THEN ends[i - endlen]
        ELSE field_ends[i]]

RecordCheck_FewAccepted(num_fields, endlen, field_ends) ==
    IF endlen > num_fields + 1 THEN TOO_MANY
    ELSE IF endlen = num_fields + 1
            /\ field_ends[num_fields + 1] # field_ends[num_fields]
         THEN AFTER_TRAILING
    ELSE ""

RecordCheck_ExtraAccepted(num_fields, endlen, field_ends) ==
    IF endlen < num_fields THEN TOO_FEW
    ELSE IF endlen > num_fields + 1 THEN TOO_MANY
    ELSE ""

RecordCheck_ManyAccepted(num_fields, endlen, field_ends) ==
    IF endlen < num_fields THEN TOO_FEW
    ELSE IF endlen = num_fields + 1
            /\ field_ends[num_fields + 1] # field_ends[num_fields]
         THEN AFTER_TRAILING
    ELSE ""

\* The field-count policy applied to a completed record: the message of the
\* error it raises, or "" when the record is accepted.
RecordCheck(num_fields, endlen, field_ends) ==
    IF endlen < num_fields THEN TOO_FEW
    ELSE IF endlen > num_fields + 1 THEN TOO_MANY
    ELSE IF endlen = num_fields + 1
            /\ field_ends[num_fields + 1] # field_ends[num_fields]
         THEN AFTER_TRAILING
    ELSE ""

skip_header_row_uncounted(st) == [st EXCEPT !.rows_to_skip = @ - 1]

\* A header record has been accepted: it is counted and dropped.
skip_header_row(st) == [st EXCEPT !.rows_to_skip = @ - 1, !.rows = @ + 1]

commit_batch_same_id(st, n) == [st EXCEPT !.rows = @ + n]

\* A batch of n rows is returned: the counters move on.
commit_batch(st, n) == [st EXCEPT !.batch_id = @ + 1, !.rows = @ + n]

\* The loop `while state.rows_to_skip > 0` of align.  outcap is the length
\* of out_tmp, which the header loop hands to read_record whole.
RECURSIVE header_loop(_, _, _, _)
RECURSIVE header_step(_, _, _, _, _)
header_loop(st, buf, outcap, endlen) ==
    IF st.rows_to_skip > 0 THEN
        header_step(st, buf, outcap, endlen,
                    read_record(st.csv_reader.reader, buf, outcap,
                                Len(st.csv_reader.field_ends) - endlen))
    ELSE [returned |-> FALSE, err |-> NoError, state |-> st,
          buf |-> buf, endlen |-> endlen]

\* One turn of the header loop, r being what read_record returned.
header_step(st, buf, outcap, endlen, r) ==
    LET fe == WriteEnds(st.csv_reader.field_ends, endlen, r.ends)
        buf2 == Drop(buf, r.n_in)
        endlen2 == endlen + Len(r.ends)
        st1 == [st EXCEPT !.csv_reader.reader = r.rd,
                          !.csv_reader.field_ends = fe]
        chk == RecordCheck(st.num_fields, endlen2, fe)
    IN CASE r.result = "InputEmpty" ->
              [returned |-> TRUE, err |-> NoError,
               state |-> [st1 EXCEPT !.csv_reader.n_end = endlen2],
               buf |-> buf2, endlen |-> endlen2]
         [] r.result = "OutputFull" ->
              [returned |-> TRUE,
               err |-> csv_error(Plain("output more than input, in header"), st.rows),
               state |-> st1, buf |-> buf2, endlen |-> endlen2]
         [] r.result = "OutputEndsFull" ->
              [returned |-> TRUE,
               err |-> csv_error(Plain(ENDS_FULL), st.rows),
               state |-> st1, buf |-> buf2, endlen |-> endlen2]
         [] r.result = "Record" ->
              IF chk # "" THEN
                  [returned |-> TRUE, err |-> csv_error(Plain(chk), st.rows),
                   state |-> st1, buf |-> buf2, endlen |-> endlen2]
              ELSE header_loop(skip_header_row(st1), buf2, outcap, 0)
         [] r.result = "End" ->
              [returned |-> TRUE,
               err |-> csv_error(Plain("unexpect eof in header"), st.rows),
               state |-> st1, buf |-> buf2, endlen |-> endlen2]

\* The loop `while !buf.is_empty()` of align.  a = [st, buf, endlen, out_tmp,
\* row_batch_end, row_ends, field_ends, err]; out_tmp holds the out_pos
\* bytes written so far, outlen is the length out_tmp was allocated with.
RECURSIVE data_loop(_, _, _, _)
RECURSIVE data_step(_, _, _, _, _)
data_loop(a, outlen, start_row, last_batch_remain_len) ==
    IF Len(a.buf) > 0 THEN
        data_step(a, outlen, start_row, last_batch_remain_len,
                  read_record(a.st.csv_reader.reader, a.buf, outlen - Len(a.out_tmp),
                              Len(a.st.csv_reader.field_ends) - a.endlen))
    ELSE a

data_step_tail_uncounted(a, outlen, start_row, last_batch_remain_len, r) ==
    LET fe == WriteEnds(a.st.csv_reader.field_ends, a.endlen, r.ends)
        endlen2 == a.endlen + Len(r.ends)
        out_pos == Len(a.out_tmp) + Len(r.out)
        a1 == [a EXCEPT !.st.csv_reader.reader = r.rd,
                        !.st.csv_reader.field_ends = fe,
                        !.buf = Drop(a.buf, r.n_in),
                        !.endlen = endlen2,
                        !.out_tmp = a.out_tmp \o r.out]
        row == start_row + Len(a.row_ends)
        chk == RecordCheck(a.st.num_fields, endlen2, fe)
    IN CASE r.result = "InputEmpty" -> a1
         [] r.result = "OutputFull" ->
              [a1 EXCEPT !.err = csv_error(Plain("output more than input"), row)]
         [] r.result = "OutputEndsFull" ->
              [a1 EXCEPT !.err = csv_error(Plain(ENDS_FULL), row)]
         [] r.result = "Record" ->
              IF chk # "" THEN [a1 EXCEPT !.err = csv_error(Plain(chk), row)]
              ELSE data_loop(
                     [a1 EXCEPT !.field_ends = @ \o Take(fe, a.st.num_fields),
                                !.row_ends = Append(@, out_pos),
                                !.endlen = 0,
                                !.row_batch_end = out_pos],
                     outlen, start_row, last_batch_remain_len)
         [] r.result = "End" ->
              [a1 EXCEPT !.err = csv_error(Plain("unexpect eof"), row)]

data_step_ends_absolute(a, outlen, start_row, last_batch_remain_len, r) ==
    LET fe == WriteEnds(a.st.csv_reader.field_ends, a.endlen, r.ends)
        endlen2 == a.endlen + Len(r.ends)
        out_pos == Len(a.out_tmp) + Len(r.out)
        a1 == [a EXCEPT !.st.csv_reader.reader = r.rd,
                        !.st.csv_reader.field_ends = fe,
                        !.buf = Drop(a.buf, r.n_in),
                        !.endlen = endlen2,
                        !.out_tmp = a.out_tmp \o r.out]
        row == start_row + Len(a.row_ends)
        chk == RecordCheck(a.st.num_fields, endlen2, fe)
    IN CASE r.result = "InputEmpty" -> a1
         [] r.result = "OutputFull" ->
              [a1 EXCEPT !.err = csv_error(Plain("output more than input"), row)]
         [] r.result = "OutputEndsFull" ->
              [a1 EXCEPT !.err = csv_error(Plain(ENDS_FULL), row)]
         [] r.result = "Record" ->
              IF chk # "" THEN [a1 EXCEPT !.err = csv_error(Plain(chk), row)]
              ELSE data_loop(
                     [a1 EXCEPT !.field_ends = @ \o [i \in 1..a.st.num_fields |->
                                                    fe[i] + last_batch_remain_len
                                                          + a.row_batch_end],
                                !.row_ends = Append(@, last_batch_remain_len + out_pos),
                                !.endlen = 0,
                                !.row_batch_end = out_pos],
                     outlen, start_row, last_batch_remain_len)
         [] r.result = "End" ->
              [a1 EXCEPT !.err = csv_error(Plain("unexpect eof"), row)]

\* One turn of the data loop, r being what read_record returned.
data_step(a, outlen, start_row, last_batch_remain_len, r) ==
    LET fe == WriteEnds(a.st.csv_reader.field_ends, a.endlen, r.ends)
        endlen2 == a.endlen + Len(r.ends)
        out_pos == Len(a.out_tmp) + Len(r.out)
        a1 == [a EXCEPT !.st.csv_reader.reader = r.rd,
                        !.st.csv_reader.field_ends = fe,
                        !.buf = Drop(a.buf, r.n_in),
                        !.endlen = endlen2,
                        !.out_tmp = a.out_tmp \o r.out]
        row == start_row + Len(a.row_ends)
        chk == RecordCheck(a.st.num_fields, endlen2, fe)
    IN CASE r.result = "InputEmpty" -> a1
         [] r.result = "OutputFull" ->
              [a1 EXCEPT !.err = csv_error(Plain("output more than input"), row)]
         [] r.result = "OutputEndsFull" ->
              [a1 EXCEPT !.err = csv_error(Plain(ENDS_FULL), row)]
         [] r.result = "Record" ->
              IF chk # "" THEN [a1 EXCEPT !.err = csv_error(Plain(chk), row)]
              ELSE data_loop(
                     [a1 EXCEPT !.field_ends = @ \o Take(fe, a.st.num_fields),
                                !.row_ends = Append(@, last_batch_remain_len + out_pos),
                                !.endlen = 0,
                                !.row_batch_end = out_pos],
                     outlen, start_row, last_batch_remain_len)
         [] r.result = "End" ->
              [a1 EXCEPT !.err = csv_error(Plain("unexpect eof"), row)]

align_end_tail_dropped(st, d) ==
    IF d.err # NoError THEN [state |-> d.st, batches |-> <<>>, err |-> d.err]
    ELSE IF d.row_ends = <<>> THEN
        [state |-> [d.st EXCEPT !.csv_reader.n_end = d.endlen,
                                !.csv_reader.out = @ \o d.out_tmp],
         batches |-> <<>>, err |-> NoError]
    ELSE
        [state |-> [commit_batch(d.st, Len(d.row_ends))
                      EXCEPT !.csv_reader.n_end = d.endlen,
                             !.csv_reader.out = <<>>],
         batches |-> << [data |-> d.st.csv_reader.out
                                   \o Take(d.out_tmp, d.row_batch_end),
                         row_ends |-> d.row_ends,
                         field_ends |-> d.field_ends,
                         batch_id |-> st.batch_id,
                         start_row |-> st.rows] >>,
         err |-> NoError]

align_end_tail_in_batch(st, d) ==
    IF d.err # NoError THEN [state |-> d.st, batches |-> <<>>, err |-> d.err]
    ELSE IF d.row_ends = <<>> THEN
        [state |-> [d.st EXCEPT !.csv_reader.n_end = d.endlen,
                                !.csv_reader.out = @ \o d.out_tmp],
         batches |-> <<>>, err |-> NoError]
    ELSE
        [state |-> [commit_batch(d.st, Len(d.row_ends))
                      EXCEPT !.csv_reader.n_end = d.endlen,
                             !.csv_reader.out = Drop(d.out_tmp, d.row_batch_end)],
         batches |-> << [data |-> d.st.csv_reader.out \o d.out_tmp,
                         row_ends |-> d.row_ends,
                         field_ends |-> d.field_ends,
                         batch_id |-> st.batch_id,
                         start_row |-> st.rows] >>,
         err |-> NoError]

align_end_id_always(st, d) ==
    IF d.err # NoError THEN [state |-> d.st, batches |-> <<>>, err |-> d.err]
    ELSE IF d.row_ends = <<>> THEN
        [state |-> [commit_batch(d.st, 0)
                      EXCEPT !.csv_reader.n_end = d.endlen,
                             !.csv_reader.out = @ \o d.out_tmp],
         batches |-> <<>>, err |-> NoError]
    ELSE
        [state |-> [commit_batch(d.st, Len(d.row_ends))
                      EXCEPT !.csv_reader.n_end = d.endlen,
                             !.csv_reader.out = Drop(d.out_tmp, d.row_batch_end)],
         batches |-> << [data |-> d.st.csv_reader.out
                                   \o Take(d.out_tmp, d.row_batch_end),
                         row_ends |-> d.row_ends,
                         field_ends |-> d.field_ends,
                         batch_id |-> st.batch_id,
                         start_row |-> st.rows] >>,
         err |-> NoError]

\* The end of align (lines 289-321): d is what the data loop left, st the
\* state when the loop began.
align_end(st, d) ==
    IF d.err # NoError THEN [state |-> d.st, batches |-> <<>>, err |-> d.err]
    ELSE IF d.row_ends = <<>> THEN
        [state |-> [d.st EXCEPT !.csv_reader.n_end = d.endlen,
                                !.csv_reader.out = @ \o d.out_tmp],
         batches |-> <<>>, err |-> NoError]
    ELSE
        [state |-> [commit_batch(d.st, Len(d.row_ends))
                      EXCEPT !.csv_reader.n_end = d.endlen,
                             !.csv_reader.out = Drop(d.out_tmp, d.row_batch_end)],
         batches |-> << [data |-> d.st.csv_reader.out
                                   \o Take(d.out_tmp, d.row_batch_end),
                         row_ends |-> d.row_ends,
                         field_ends |-> d.field_ends,
                         batch_id |-> st.batch_id,
                         start_row |-> st.rows] >>,
         err |-> NoError]

\* align after the header loop, which left h.
align_rows(h, outlen, start_row) ==
    IF h.returned THEN [state |-> h.state, batches |-> <<>>, err |-> h.err]
    ELSE align_end(h.state,
                   data_loop([st |-> h.state, buf |-> h.buf, endlen |-> h.endlen,
                              out_tmp |-> <<>>, row_batch_end |-> 0,
                              row_ends |-> <<>>, field_ends |-> <<>>,
                              err |-> NoError],
                             outlen, start_row, Len(h.state.csv_reader.out)))

align_out_short(state0, buf_in) ==
    align_rows(header_loop([state0 EXCEPT !.offset = @ + Len(buf_in)],
                           buf_in, Len(buf_in) - 1, state0.csv_reader.n_end),
               Len(buf_in) - 1, state0.rows)

\* InputFormatCSV::align(state, buf_in): the state afterwards, the batches
\* returned (Ok) and the error returned (Err; NoError when Ok).
align(state0, buf_in) ==
    align_rows(header_loop([state0 EXCEPT !.offset = @ + Len(buf_in)],
                           buf_in, Len(buf_in), state0.csv_reader.n_end),
               Len(buf_in), state0.rows)

UNEXPECTED_END == "unexpected end of input"

\* close(state): the stream has ended.  A tail that is not empty is the
\* start of a record that was never terminated.
close(st) ==
    IF st.csv_reader.out # <<>> THEN csv_error(Plain(UNEXPECTED_END), st.rows)
    ELSE NoError

-----------------------------------------------------------------------------
(* Column builders and the text reader used on one field *)

IsWhiteSpace(c) == c \in {SP, "\t", LF, CR}

IsDigit(c) == c \in {"0", "1"}

RECURSIVE ignore_white_spaces(_)
ignore_white_spaces(r) ==
    IF Len(r) > 0 /\ IsWhiteSpace(r[1]) THEN ignore_white_spaces(Tail(r)) ELSE r

RECURSIVE DigitPrefix(_)
DigitPrefix(r) ==
    IF Len(r) > 0 /\ IsDigit(r[1]) THEN 1 + DigitPrefix(Tail(r)) ELSE 0

\* TypeDeserializer::de_default: the column's default-value production.
de_default(col, fs) ==
    Append(col, [by |-> "de_default",
                 value |-> IF fs.empty_as_default THEN <<"default">> ELSE <<"empty">>])

\* TypeDeserializer::de_text of a number column: reads the digits at the
\* reader's position and appends the value, or fails and appends nothing.
de_text(col, r, fs) ==
    LET n == DigitPrefix(r)
    IN IF n = 0 THEN [ok |-> FALSE, col |-> col, reader |-> r]
       ELSE [ok |-> TRUE,
             col |-> Append(col, [by |-> "de_text", value |-> Take(r, n)]),
             reader |-> Drop(r, n)]

format_column_error(c, col_data, text) ==
    [text |-> text, column |-> c, col_data |-> col_data]

read_field_untrimmed(col, col_data, fs) ==
    IF Len(col_data) = 0 THEN [col |-> de_default(col, fs), text |-> ""]
    ELSE LET t == de_text(col, col_data, fs)
         IN IF ~t.ok THEN [col |-> t.col, text |-> "de_text"]
            ELSE IF Len(ignore_white_spaces(t.reader)) # 0
                 THEN [col |-> t.col, text |-> "bad field end"]
            ELSE [col |-> t.col, text |-> ""]

read_field_end_unchecked(col, col_data, fs) ==
    LET reader == ignore_white_spaces(col_data)
    IN IF Len(reader) = 0 THEN [col |-> de_default(col, fs), text |-> ""]
       ELSE LET t == de_text(col, reader, fs)
            IN IF ~t.ok THEN [col |-> t.col, text |-> "de_text"]
               ELSE [col |-> t.col, text |-> ""]

read_field_blank_skipped(col, col_data, fs) ==
    LET reader == ignore_white_spaces(col_data)
    IN IF Len(reader) = 0 THEN [col |-> col, text |-> ""]
       ELSE LET t == de_text(col, reader, fs)
            IN IF ~t.ok THEN [col |-> t.col, text |-> "de_text"]
               ELSE IF Len(ignore_white_spaces(t.reader)) # 0
                    THEN [col |-> t.col, text |-> "bad field end"]
               ELSE [col |-> t.col, text |-> ""]

\* The body of the loop of read_row: the bytes col_data of one field are
\* decoded into the column col.  text is the message of the failure, or "".
read_field(col, col_data, fs) ==
    LET reader == ignore_white_spaces(col_data)
    IN IF Len(reader) = 0 THEN [col |-> de_default(col, fs), text |-> ""]
       ELSE LET t == de_text(col, reader, fs)
            IN IF ~t.ok THEN [col |-> t.col, text |-> "de_text"]
               ELSE IF Len(ignore_white_spaces(t.reader)) # 0
                    THEN [col |-> t.col, text |-> "bad field end"]
               ELSE [col |-> t.col, text |-> ""]

\* The loop of read_row from column c on (columns are numbered from 1).
RECURSIVE read_row_from(_, _, _, _, _, _, _)
RECURSIVE read_row_next(_, _, _, _, _, _, _, _)
read_row_from(c, field_start, buf, cols, field_ends, fs, row_index) ==
    IF c > Len(cols) THEN [columns |-> cols, err |-> NoError]
    ELSE read_row_next(c, field_start, buf, cols, field_ends, fs, row_index,
                       read_field(cols[c], SubSeq(buf, field_start + 1, field_ends[c]),
                                  fs))

\* The rest of the loop, f being what decoding field c gave.
read_row_next(c, field_start, buf, cols, field_ends, fs, row_index, f) ==
    IF f.text # "" THEN
        [columns |-> [cols EXCEPT ![c] = f.col],
         err |-> csv_error(format_column_error(c, SubSeq(buf, field_start + 1,
                                                         field_ends[c]), f.text),
                           row_index)]
    ELSE read_row_from(c + 1, field_ends[c], buf, [cols EXCEPT ![c] = f.col],
                       field_ends, fs, row_index)

read_row(buf, cols, field_ends, fs, row_index) ==
    read_row_from(1, 0, buf, cols, field_ends, fs, row_index)

\* The loop of deserialize from row i on (rows are numbered from 0).
RECURSIVE deserialize_from(_, _, _, _, _)
RECURSIVE deserialize_next(_, _, _, _)
deserialize_from_row_in_batch(i, start, cols, batch, fs) ==
    IF i >= Len(batch.row_ends) THEN [columns |-> cols, err |-> NoError]
    ELSE deserialize_next(i, batch, fs,
             read_row(SubSeq(batch.data, start + 1, batch.row_ends[i + 1]),
                      cols,
                      SubSeq(batch.field_ends, i * Len(cols) + 1, (i + 1) * Len(cols)),
                      fs, i))

deserialize_from(i, start, cols, batch, fs) ==
    IF i >= Len(batch.row_ends) THEN [columns |-> cols, err |-> NoError]
    ELSE deserialize_next(i, batch, fs,
             read_row(SubSeq(batch.data, start + 1, batch.row_ends[i + 1]),
                      cols,
                      SubSeq(batch.field_ends, i * Len(cols) + 1, (i + 1) * Len(cols)),
                      fs, batch.start_row + i))

\* The rest of the loop, r being what read_row returned for row i.
deserialize_next(i, batch, fs, r) ==
    IF r.err # NoError THEN r
    ELSE deserialize_from(i + 1, batch.row_ends[i + 1], r.columns, batch, fs)

\* InputFormatCSV::deserialize(builder, batch)
deserialize(cols, batch, fs) == deserialize_from(0, 0, cols, batch, fs)

-----------------------------------------------------------------------------
(* The pipeline: the stream is handed to align chunk by chunk, and the     *)
(* batches align returns are handed to deserialize in order.               *)

FormatSettings(empty_as_default) ==
    [empty_as_default |-> empty_as_default, null_bytes |-> <<"\\", "N">>]

\* block is the size of the blocks the stream is read in when it is read in
\* blocks of one size.
InputContext(nf, skip, delim, ead, block, stream) ==
    [num_fields |-> nf, rows_to_skip |-> skip, record_delimiter |-> delim,
     format_settings |-> FormatSettings(ead), block |-> block, stream |-> stream]

\* What a call record keeps of the AligningState the call started from.
Before(st) ==
    [rows |-> st.rows, rows_to_skip |-> st.rows_to_skip, batch_id |-> st.batch_id,
     n_end |-> st.csv_reader.n_end, out |-> st.csv_reader.out]

NoCall == [op |-> "none", batches |-> <<>>, before |-> Before(AligningState_create(ctx))]

\* The state after the stream c.stream has been opened with context c.
Open(c) ==
    /\ ctx = c
    /\ rest = c.stream
    /\ state = AligningState_create(c)
    /\ output = <<>>
    /\ emitted = <<>>
    /\ error = NoError
    /\ columns = [i \in 1..c.num_fields |-> <<>>]
    /\ last = NoCall

\* Streams of every byte that the reader treats specially, cut anywhere.
Init ==
    \E nf \in {1, 2}, skip \in {0, 1}, delim \in {"CRLF", "Any"},
       stream \in SeqsUpTo({"1", DELIM, QUOTE, LF, CR}, MaxLen) :
        Open(InputContext(nf, skip, delim, TRUE, 0, stream))

\* Longer streams of plain records, with up to MaxSkip header rows.
InitHeader ==
    \E nf \in {1, 2}, skip \in 1..MaxSkip,
       stream \in SeqsUpTo({"1", DELIM, LF}, MaxHdr) :
        Open(InputContext(nf, skip, "Any", TRUE, 0, stream))

\* Streams of records of many empty fields.
InitWide ==
    \E nf \in {1, 2}, skip \in {0, 1}, stream \in SeqsUpTo({DELIM, LF}, MaxWide) :
        Open(InputContext(nf, skip, "Any", TRUE, 0, stream))

\* The text of a field, as it may stand in a stream of well-formed records.
FieldTexts ==
    {<<>>, <<SP>>, <<"1">>, <<"x">>, <<"1", "x">>, <<"1", SP>>, <<"\\", "N">>}

RECURSIVE JoinFields(_)
JoinFields(fields) ==
    IF Len(fields) = 1 THEN fields[1] \o <<LF>>
    ELSE fields[1] \o <<DELIM>> \o JoinFields(Tail(fields))

RECURSIVE JoinRows(_)
JoinRows(rows) ==
    IF rows = <<>> THEN <<>> ELSE JoinFields(Head(rows)) \o JoinRows(Tail(rows))

\* Streams of skip header records and then records of num_fields fields
\* each, MaxCells fields at most, read in blocks.
InitDecode ==
    \E nf \in {1, 2}, skip \in {0, 1}, ead \in BOOLEAN, block \in {3, 64},
       n \in 1..MaxCells :
        /\ n * nf <= MaxCells
        /\ \E rows \in [1..n -> [1..nf -> FieldTexts]] :
              Open(InputContext(nf, skip, "Any", ead, block,
                                JoinRows([i \in 1..skip |-> [c \in 1..nf |-> <<"x">>]])
                                    \o JoinRows(rows)))

\* Streams of one header record at most and MaxCells fields at most, each
\* field a digit, a letter or both, cut anywhere.
InitSplit ==
    \E nf \in {1, 2}, skip \in {0, 1}, n \in 1..MaxCells :
        /\ n * nf <= MaxCells
        /\ \E rows \in [1..n -> [1..nf -> {<<"1">>, <<"x">>, <<"1", "x">>}]] :
              Open(InputContext(nf, skip, "Any", TRUE, 0,
                                JoinRows([i \in 1..skip |-> [c \in 1..nf |-> <<"x">>]])
                                    \o JoinRows(rows)))

\* align is called with the chunk buf_in, the next bytes of the stream.
Aligned(r) ==
    /\ state' = r.state
    /\ output' = output \o r.batches
    /\ emitted' = emitted \o r.batches
    /\ error' = r.err
    /\ last' = [op |-> "align", batches |-> r.batches, before |-> Before(state)]

AlignChunk(buf_in) ==
    /\ error = NoError
    /\ Aligned(align(state, buf_in))
    /\ rest' = Drop(rest, Len(buf_in))
    /\ UNCHANGED <<ctx, columns>>

\* The stream is cut anywhere: the chunk is the next n bytes.
Align(n) ==
    /\ n \in 1..Len(rest)
    /\ AlignChunk(Take(rest, n))

\* The stream is read in blocks of ctx.block bytes; the last one is shorter.
AlignBlock ==
    /\ rest # <<>>
    /\ AlignChunk(Take(rest, Min(ctx.block, Len(rest))))

Deserialized(r) ==
    /\ columns' = r.columns
    /\ error' = r.err

\* deserialize is called with the oldest batch not yet decoded.
Deserialize ==
    /\ error = NoError
    /\ output # <<>>
    /\ Deserialized(deserialize(columns, Head(output), ctx.format_settings))
    /\ last' = [op |-> "deserialize", batches |-> <<Head(output)>>,
                before |-> Before(state)]
    /\ output' = Tail(output)
    /\ UNCHANGED <<ctx, rest, state, emitted>>

\* The stream has been handed to align whole and is closed.
Close ==
    /\ error = NoError
    /\ rest = <<>>
    /\ last.op # "close"
    /\ error' = close(state)
    /\ last' = [op |-> "close", batches |-> <<>>, before |-> Before(state)]
    /\ UNCHANGED <<ctx, rest, state, output, emitted, columns>>

Next == \E n \in 1..Len(rest) : Align(n)

NextClose == (\E n \in 1..Len(rest) : Align(n)) \/ Close

NextDecode == AlignBlock \/ Deserialize

NextSplit == (\E n \in 1..Len(rest) : Align(n)) \/ Deserialize

Spec == Init /\ [][Next]_vars

SpecHeader == InitHeader /\ [][Next]_vars

SpecWide == InitWide /\ [][Next]_vars

SpecDecode == InitDecode /\ [][NextDecode]_vars

SpecClose == Init /\ [][NextClose]_vars

SpecSplit == InitSplit /\ [][NextSplit]_vars

-----------------------------------------------------------------------------
(* What the claims are stated over *)

\* The bytes handed to align so far.
Consumed == Take(ctx.stream, Len(ctx.stream) - Len(rest))

\* The records of a byte sequence, read by one reader with room for every
\* byte and every field end: the completed records in order, each with its
\* decoded bytes and its field ends, and the record still in progress.
RECURSIVE RecordsFrom(_, _, _, _, _)
RecordsFrom(rd, buf, data, ends, recs) ==
    IF Len(buf) = 0
    THEN [records |-> recs, partial |-> [data |-> data, ends |-> ends]]
    ELSE LET r == read_record(rd, buf, Len(buf), Len(buf) + 1)
         IN IF r.result = "Record"
            THEN RecordsFrom(r.rd, Drop(buf, r.n_in), <<>>, <<>>,
                             Append(recs, [data |-> data \o r.out,
                                           ends |-> ends \o r.ends]))
            ELSE [records |-> recs,
                  partial |-> [data |-> data \o r.out, ends |-> ends \o r.ends]]

RecordsOf(bytes) ==
    RecordsFrom(CsvReaderState_create(ctx.num_fields, ctx.record_delimiter).reader,
                bytes, <<>>, <<>>, <<>>)

\* The rows of a batch, each with its bytes and its field ends.
RowsOfBatch(b) ==
    [i \in 1..Len(b.row_ends) |->
        [data |-> SubSeq(b.data, (IF i = 1 THEN 0 ELSE b.row_ends[i - 1]) + 1,
                         b.row_ends[i]),
         ends |-> SubSeq(b.field_ends, (i - 1) * ctx.num_fields + 1,
                         i * ctx.num_fields)]]

RECURSIVE RowsOf(_)
RowsOf(batches) ==
    IF batches = <<>> THEN <<>>
    ELSE RowsOfBatch(Head(batches)) \o RowsOf(Tail(batches))

RECURSIVE RowCount(_)
RowCount(batches) ==
    IF batches = <<>> THEN 0
    ELSE Len(Head(batches).row_ends) + RowCount(Tail(batches))

\* The row a record is emitted as: its bytes and its first num_fields ends.
RowOfRecord(rec) == [data |-> rec.data, ends |-> Take(rec.ends, ctx.num_fields)]

AlignFailed == error # NoError /\ last.op = "align"

DecodeFailed == error # NoError /\ last.op = "deserialize"

\* The field-count policy of the specification on a completed record.
TooFew(rec) == Len(rec.ends) < ctx.num_fields

TooMany(rec) == Len(rec.ends) > ctx.num_fields + 1

OneExtra(rec) == Len(rec.ends) = ctx.num_fields + 1

ExtraIsEmpty(rec) == rec.ends[ctx.num_fields + 1] = rec.ends[ctx.num_fields]

Acceptable(rec) ==
    \/ Len(rec.ends) = ctx.num_fields
    \/ OneExtra(rec) /\ ExtraIsEmpty(rec)

\* The header rows skipped so far.
Skipped == ctx.rows_to_skip - state.rows_to_skip

-----------------------------------------------------------------------------
(* C1 *)

WholeCall == align(AligningState_create(ctx), ctx.stream)

\* C1 (chunk-split independence): once the whole stream has been handed to
\* align in chunks, the rows of the batches returned are the rows that one
\* align call over the whole stream returns, and the chunked calls succeed
\* when the one call does.
C1_ChunkSplitIndependence ==
    WholeCall.err = NoError
        => /\ ~AlignFailed
           /\ rest = <<>> => RowsOf(emitted) = RowsOf(WholeCall.batches)

-----------------------------------------------------------------------------
(* C2 .. C7 *)

Recs == RecordsOf(Consumed).records

InProgress == RecordsOf(Consumed).partial

\* The first of the records recs that the field-count policy rejects, or 0.
FirstBadOf(recs) ==
    IF \E j \in 1..Len(recs) : ~Acceptable(recs[j])
    THEN CHOOSE j \in 1..Len(recs) :
            /\ ~Acceptable(recs[j])
            /\ \A i \in 1..(j - 1) : Acceptable(recs[i])
    ELSE 0

FirstBad == FirstBadOf(Recs)

\* C2 (field count invariant): every batch has num_fields field ends per
\* row, every emitted row comes from a record with num_fields field ends
\* (or one more, empty, field), and once a record with any other count has
\* been completed align has failed.
C2_FieldCount ==
    LET recs == Recs
        n == RowCount(emitted)
    IN /\ \A k \in 1..Len(emitted) :
             Len(emitted[k].row_ends) * ctx.num_fields = Len(emitted[k].field_ends)
       /\ \A k \in 1..n :
             /\ ctx.rows_to_skip + k <= Len(recs)
             /\ Acceptable(recs[ctx.rows_to_skip + k])
       /\ FirstBadOf(recs) # 0 => AlignFailed

\* A batch whose first record had some of its field ends found by an
\* earlier call.
C2_Witness ==
    /\ error = NoError
    /\ last.op = "align"
    /\ last.batches # <<>>
    /\ last.before.n_end > 0
    /\ last.before.n_end < ctx.num_fields

\* C3 (trailing delimiter): a record with num_fields + 1 field ends is
\* rejected, with the trailing-delimiter error, exactly when its extra field
\* is not empty; an accepted one is emitted as its first num_fields fields.
C3_TrailingDelimiter ==
    LET recs == Recs
        bad == FirstBadOf(recs)
        rows == RowsOf(emitted)
    IN /\ (bad # 0 /\ OneExtra(recs[bad]))
             => (AlignFailed /\ error.msg.text = AFTER_TRAILING)
       /\ error.msg.text = AFTER_TRAILING
             => (bad # 0 /\ OneExtra(recs[bad]))
       /\ ~AlignFailed =>
             \A j \in (ctx.rows_to_skip + 1)..Len(recs) :
                 OneExtra(recs[j]) =>
                     /\ j - ctx.rows_to_skip <= Len(rows)
                     /\ rows[j - ctx.rows_to_skip] = RowOfRecord(recs[j])

\* A row has been emitted for a record that ends with a delimiter.
C3_Witness ==
    LET recs == Recs
    IN /\ ~AlignFailed
       /\ \E j \in (ctx.rows_to_skip + 1)..Len(recs) :
             /\ OneExtra(recs[j])
             /\ j - ctx.rows_to_skip <= RowCount(emitted)

C5_HeaderSkip ==
    LET recs == Recs
        rows == RowsOf(emitted)
    IN /\ emitted # <<>> => emitted[1].start_row = ctx.rows_to_skip
       /\ \A k \in 1..Len(rows) :
             /\ ctx.rows_to_skip + k <= Len(recs)
             /\ rows[k] = RowOfRecord(recs[ctx.rows_to_skip + k])

\* A batch returned by a call that came after the call that skipped the
\* last header row.
C5_Witness ==
    /\ ctx.rows_to_skip > 0
    /\ last.op = "align"
    /\ last.batches # <<>>
    /\ last.before.rows_to_skip = 0
    /\ Len(emitted) = 1

\* C6 (row numbering continuity): the k-th batch has batch_id k - 1 and
\* starts at the number of header rows skipped plus the rows of the batches
\* before it.
C6_RowNumbering ==
    \A k \in 1..Len(emitted) :
        /\ emitted[k].batch_id = k - 1
        /\ emitted[k].start_row = Skipped + RowCount(Take(emitted, k - 1))

\* A second batch of a stream with a header.
C6_Witness ==
    /\ ctx.rows_to_skip > 0
    /\ Len(emitted) >= 2

\* C7 (row number of a MalformedRow error): the error raised for a rejected
\* record carries the position of that record in the stream (csv_error
\* counts rows from 1).
C7_ErrorRow ==
    (AlignFailed /\ error.msg.text \in {TOO_FEW, TOO_MANY, AFTER_TRAILING})
        => error.row = FirstBad

-----------------------------------------------------------------------------
(* C8 .. C10 *)

\* The bytes of field c of a record.
FieldText(rec, c) ==
    SubSeq(rec.data, (IF c = 1 THEN 0 ELSE rec.ends[c - 1]) + 1, rec.ends[c])

IsBlank(t) == \A i \in 1..Len(t) : IsWhiteSpace(t[i])

RECURSIVE TrimEnd(_)
TrimEnd(t) ==
    IF Len(t) > 0 /\ IsWhiteSpace(t[Len(t)]) THEN TrimEnd(Take(t, Len(t) - 1)) ELSE t

Trimmed(t) == TrimEnd(ignore_white_spaces(t))

\* The data records of the stream: those after the header rows.
DataRecs == Drop(RecordsOf(ctx.stream).records, ctx.rows_to_skip)

\* C8 (no partial-row commit): after a failed deserialize every column
\* builder holds one entry for each row before the failing row and nothing
\* else.
C8_NoPartialRow ==
    DecodeFailed =>
        \A c \in 1..ctx.num_fields :
            Len(columns[c]) = error.row - 1 - ctx.rows_to_skip

\* C9 (empty fields): a field that is empty or all whitespace is never
\* handed to de_text; de_default makes its entry, which is the default value
\* when empty_as_default is set.
C9_EmptyField ==
    LET recs == DataRecs
    IN /\ \A c \in 1..ctx.num_fields :
             \A k \in 1..Len(columns[c]) :
                 IsBlank(FieldText(recs[k], c)) =>
                     /\ columns[c][k].by = "de_default"
                     /\ ctx.format_settings.empty_as_default
                            => columns[c][k].value = <<"default">>
       /\ DecodeFailed => ~IsBlank(error.msg.col_data)

\* A field of one space has been decoded with empty_as_default set.
C9_Witness ==
    /\ ctx.format_settings.empty_as_default
    /\ \E c \in 1..ctx.num_fields :
          \E k \in 1..Len(columns[c]) :
              /\ FieldText(DataRecs[k], c) = <<SP>>
              /\ columns[c][k].by = "de_default"

\* C10 (null marker): a field whose trimmed bytes are the null marker gets a
\* null entry, and de_text is not called on it (so it cannot fail on it).
C10_NullMarker ==
    LET recs == DataRecs
    IN /\ \A c \in 1..ctx.num_fields :
             \A k \in 1..Len(columns[c]) :
                 Trimmed(FieldText(recs[k], c)) = ctx.format_settings.null_bytes
                     => columns[c][k].by = "null"
       /\ DecodeFailed
             => Trimmed(error.msg.col_data) # ctx.format_settings.null_bytes

-----------------------------------------------------------------------------
(* C11 *)

\* The rows handed to deserialize so far.
Offered == RowCount(emitted) - RowCount(output)

\* What the type-specific decode does on the bytes t of a field that is not
\* blank: it starts after the leading whitespace.
DecodeOf(t) == de_text(<<>>, ignore_white_spaces(t), ctx.format_settings)

\* The failure the field bytes t must raise, or "" when they must decode.
FailureOf(t) ==
    IF IsBlank(t) THEN ""
    ELSE IF ~DecodeOf(t).ok THEN "de_text"
    ELSE IF ~IsBlank(DecodeOf(t).reader) THEN "bad field end"
    ELSE ""

\* Field c of row k comes before field c2 of row k2 in row-major order.
CellBefore(k, c, k2, c2) == k < k2 \/ (k = k2 /\ c < c2)

\* The failing fields among the first n of the records recs.
FailingCells(recs, n) ==
    {f \in (1..n) \X (1..ctx.num_fields) :
        FailureOf(FieldText(recs[f[1]], f[2])) # ""}

FirstCell(cells) ==
    CHOOSE f \in cells :
        \A g \in cells : g = f \/ CellBefore(f[1], f[2], g[1], g[2])

\* C11 (MalformedField): deserialize fails exactly when a field handed to it
\* is not blank and either its type-specific decode fails or bytes other
\* than whitespace follow the decoded value; the error is that of the first
\* such field in row-major order, no builder holds an entry of a later
\* field, and a value followed by whitespace only is accepted.
C11_MalformedField ==
    LET recs == DataRecs
        cells == FailingCells(recs, Offered)
    IN /\ cells = {} => ~DecodeFailed
       /\ cells # {} =>
             LET f == FirstCell(cells)
             IN /\ DecodeFailed
                /\ error.msg = format_column_error(f[2], FieldText(recs[f[1]], f[2]),
                                                   FailureOf(FieldText(recs[f[1]], f[2])))
                /\ \A c \in 1..ctx.num_fields :
                      IF c > f[2] THEN Len(columns[c]) = f[1] - 1
                      ELSE Len(columns[c]) <= f[1]
       /\ \A c \in 1..ctx.num_fields :
             \A k \in 1..Len(columns[c]) :
                 (~IsBlank(FieldText(recs[k], c)) /\ FailureOf(FieldText(recs[k], c)) = "")
                     => /\ columns[c][k].by = "de_text"
                        /\ columns[c][k].value \o DecodeOf(FieldText(recs[k], c)).reader
                              = ignore_white_spaces(FieldText(recs[k], c))

\* A value followed by a space has been decoded, and a later row has failed
\* on the byte that follows its value.
C11_Witness ==
    /\ DecodeFailed
    /\ error.msg.text = "bad field end"
    /\ error.row > ctx.rows_to_skip + 1
    /\ \E k \in 1..Len(columns[1]) :
          /\ FieldText(DataRecs[k], 1) = <<"1", SP>>
          /\ columns[1][k] = [by |-> "de_text", value |-> <<"1">>]

-----------------------------------------------------------------------------
(* C12 *)

-----------------------------------------------------------------------------
(* C13 *)

\* C13 (header skipping across chunks): an align call that leaves header
\* rows to skip, every header record completed so far being acceptable,
\* returns no batch and no error, with rows_to_skip lowered by the header
\* records completed so far and n_end holding the field ends of the header
\* record in progress.
C13_HeaderAcrossChunks ==
    LET all == RecordsOf(Consumed)
    IN (/\ last.op = "align"
        /\ Len(all.records) < ctx.rows_to_skip
        /\ FirstBadOf(all.records) = 0)
          => /\ error = NoError
             /\ last.batches = <<>>
             /\ state.rows_to_skip = ctx.rows_to_skip - Len(all.records)
             /\ state.csv_reader.n_end = Len(all.partial.ends)

-----------------------------------------------------------------------------
(* C14 *)

\* The data of the batches, one after the other.
RECURSIVE DataOf(_)
DataOf(batches) ==
    IF batches = <<>> THEN <<>> ELSE Head(batches).data \o DataOf(Tail(batches))

\* The decoded bytes of the records recs, one after the other.
RECURSIVE DecodedOf(_)
DecodedOf(recs) ==
    IF recs = <<>> THEN <<>> ELSE Head(recs).data \o DecodedOf(Tail(recs))

\* The decoded output of the bytes consumed so far that are not header
\* bytes: the records after the header rows and the record in progress.
DecodedData ==
    LET all == RecordsOf(Consumed)
    IN IF Len(all.records) < ctx.rows_to_skip THEN <<>>
       ELSE DecodedOf(Drop(all.records, ctx.rows_to_skip)) \o all.partial.data

\* C14 (no loss, no duplication): while align succeeds, the data of the
\* batches emitted so far followed by the tail is the decoded output of the
\* bytes consumed so far that are not header bytes, and the data of every
\* batch ends at its last row end.
C14_NoLossNoDuplication ==
    error = NoError =>
        /\ DataOf(emitted) \o state.csv_reader.out = DecodedData
        /\ \A k \in 1..Len(emitted) :
              /\ emitted[k].row_ends # <<>>
              /\ emitted[k].row_ends[Len(emitted[k].row_ends)] = Len(emitted[k].data)

\* A call that began with a tail has returned a batch and left a tail.
C14_Witness ==
    /\ error = NoError
    /\ last.op = "align"
    /\ last.batches # <<>>
    /\ last.before.out # <<>>
    /\ state.csv_reader.out # <<>>

-----------------------------------------------------------------------------
(* C15 *)

\* The offset in its batch at which row i of batch b starts.
RowStart(b, i) == IF i = 1 THEN 0 ELSE b.row_ends[i - 1]

\* C15 as claimed (row_ends strictly increasing): in every batch each row
\* end is greater than the row end before it.
C15_RowEndsStrictlyIncreasing ==
    \A k \in 1..Len(emitted) :
        \A i \in 2..Len(emitted[k].row_ends) :
            emitted[k].row_ends[i - 1] < emitted[k].row_ends[i]

\* C15 as amended (row_ends non-decreasing): in every batch the row ends
\* are offsets into data that never decrease, and a row end exceeds the one
\* before it by the number of decoded bytes of the row's record, which is 0
\* for a record whose fields are all empty.
C15_RowEndsNonDecreasing ==
    LET recs == Recs
    IN \A k \in 1..Len(emitted) :
          \A i \in 1..Len(emitted[k].row_ends) :
              /\ RowStart(emitted[k], i) <= emitted[k].row_ends[i]
              /\ emitted[k].row_ends[i] <= Len(emitted[k].data)
              /\ emitted[k].row_ends[i] - RowStart(emitted[k], i)
                    = Len(recs[emitted[k].start_row + i].data)

\* A batch with a row of no bytes after another row, in a batch whose first
\* row began in the tail.
C15_Witness ==
    /\ error = NoError
    /\ \E k \in 1..Len(emitted) :
          \E i \in 2..Len(emitted[k].row_ends) :
              /\ emitted[k].row_ends[i - 1] = emitted[k].row_ends[i]
              /\ emitted[k].row_ends[1] > 0

-----------------------------------------------------------------------------
(* C16 *)

\* The field ends of row i of batch b.
FieldEndsOf(b, i) ==
    SubSeq(b.field_ends, (i - 1) * ctx.num_fields + 1, i * ctx.num_fields)

NonDecreasing(s) == \A j \in 2..Len(s) : s[j - 1] <= s[j]

\* C16 as claimed (field ends against row_ends): in every batch the field
\* ends of each row never decrease and the last of them is the row's entry
\* of row_ends.
C16_LastFieldEndIsRowEnd ==
    \A k \in 1..Len(emitted) :
        \A i \in 1..Len(emitted[k].row_ends) :
            /\ NonDecreasing(FieldEndsOf(emitted[k], i))
            /\ FieldEndsOf(emitted[k], i)[ctx.num_fields] = emitted[k].row_ends[i]

\* C16 as amended (field ends are offsets into the row): in every batch the
\* field ends of each row never decrease and the last of them is the length
\* of the row, row_ends[i] less the row end before it; they are the field
\* ends of the row's record.
C16_FieldEndsWithinRow ==
    LET recs == Recs
    IN \A k \in 1..Len(emitted) :
          \A i \in 1..Len(emitted[k].row_ends) :
              /\ NonDecreasing(FieldEndsOf(emitted[k], i))
              /\ FieldEndsOf(emitted[k], i)[ctx.num_fields]
                    = emitted[k].row_ends[i] - RowStart(emitted[k], i)
              /\ FieldEndsOf(emitted[k], i)
                    = Take(recs[emitted[k].start_row + i].ends, ctx.num_fields)

\* A batch of two rows with bytes, the first of which began in the tail.
C16_Witness ==
    /\ error = NoError
    /\ last.op = "align"
    /\ last.before.out # <<>>
    /\ \E k \in 1..Len(last.batches) :
          /\ Len(last.batches[k].row_ends) >= 2
          /\ last.batches[k].row_ends[2] > last.batches[k].row_ends[1]

-----------------------------------------------------------------------------
(* C17 *)

\* The data records completed by the bytes consumed so far.
DataRowsCompleted ==
    IF Len(Recs) < ctx.rows_to_skip THEN 0 ELSE Len(Recs) - ctx.rows_to_skip

\* The data records completed during the last call: every one completed
\* before it had been emitted.
CompletedInCall == DataRowsCompleted - (RowCount(emitted) - RowCount(last.batches))

\* C17 (batches per call): an align call that succeeds returns one batch,
\* of the data rows completed during the call, when there is one, and no
\* batch otherwise; in that case batch_id is unchanged, rows has grown by the
\* header rows the call skipped, the tail has grown by the bytes the call
\* decoded after the header rows, and n_end counts the field ends of the
\* record in progress.
C17_BatchPerCall ==
    (last.op = "align" /\ error = NoError) =>
        /\ Len(last.batches) = (IF CompletedInCall > 0 THEN 1 ELSE 0)
        /\ last.batches # <<>> =>
              /\ Len(last.batches[1].row_ends) = CompletedInCall
              /\ state.batch_id = last.before.batch_id + 1
        /\ last.batches = <<>> =>
              /\ state.batch_id = last.before.batch_id
              /\ state.rows - last.before.rows
                    = last.before.rows_to_skip - state.rows_to_skip
              /\ Take(state.csv_reader.out, Len(last.before.out)) = last.before.out
              /\ DataOf(emitted) \o state.csv_reader.out = DecodedData
              /\ state.csv_reader.n_end = Len(InProgress.ends)

\* A call that skipped a header row and completed no data row: it returned
\* no batch and left decoded bytes and a field end for the next call.
C17_Witness ==
    /\ last.op = "align"
    /\ error = NoError
    /\ last.batches = <<>>
    /\ last.before.rows_to_skip > state.rows_to_skip
    /\ state.csv_reader.out # <<>>
    /\ state.csv_reader.n_end > 0

-----------------------------------------------------------------------------
(* C18 *)

OUTPUT_FULL == {"output more than input", "output more than input, in header"}

\* C18 (output buffer never exhausted): no align call fails because out_tmp
\* is full, in the header loop or in the data loop, and the bytes decoded so
\* far are never more than the bytes consumed so far.
C18_OutputNeverFull ==
    /\ error.msg.text \notin OUTPUT_FULL
    /\ error = NoError
          => Len(DataOf(emitted)) + Len(state.csv_reader.out) <= Len(Consumed)

\* A call of two bytes or more has filled out_tmp to its last byte: every
\* byte consumed so far has been copied to the output.
C18_Witness ==
    /\ error = NoError
    /\ last.op = "align"
    /\ Len(last.before.out) + 2 <= Len(state.csv_reader.out)
    /\ Len(DataOf(emitted)) + Len(state.csv_reader.out) = Len(Consumed)

-----------------------------------------------------------------------------
(* C19 *)

\* A field of the row fails to decode.
RowFails(row) == \E c \in 1..ctx.num_fields : FailureOf(FieldText(row, c)) # ""

\* C19 (row number of a decode error): when deserialize fails on row i of a
\* batch (rows counted from 0) the error carries start_row + i, as csv_error
\* prints it, counted from 1; row i is the first row of the batch with a
\* failing field, start_row counts the header rows and the rows of the
\* earlier batches, and the number is the position in the stream of the
\* record the row came from.
C19_DecodeErrorRow ==
    DecodeFailed =>
        LET b == last.batches[1]
            i == error.row - 1 - b.start_row
            rows == RowsOfBatch(b)
            cells == FailingCells(DataRecs, Offered)
        IN /\ i \in 0..(Len(rows) - 1)
           /\ RowFails(rows[i + 1])
           /\ \A j \in 1..i : ~RowFails(rows[j])
           /\ b.start_row = ctx.rows_to_skip + Offered - Len(rows)
           /\ cells # {}
           /\ error.row = ctx.rows_to_skip + FirstCell(cells)[1]
           /\ rows[i + 1] = RowOfRecord(RecordsOf(ctx.stream).records[error.row])

\* deserialize has failed on a later row of a later batch of a stream with
\* a header row.
C19_Witness ==
    /\ DecodeFailed
    /\ ctx.rows_to_skip = 1
    /\ last.batches[1].batch_id > 0
    /\ error.row - 1 > last.batches[1].start_row

-----------------------------------------------------------------------------
(* C20 *)

\* C20 (builders stay level): while every deserialize call has succeeded,
\* each of the num_fields builders holds one entry for every row handed to
\* deserialize so far, in row order: a default for a blank field, a decoded
\* value for any other.
C20_BuildersLevel ==
    error = NoError =>
        LET recs == DataRecs
        IN \A c \in 1..ctx.num_fields :
              /\ Len(columns[c]) = Offered
              /\ \A k \in 1..Len(columns[c]) :
                    columns[c][k].by = (IF IsBlank(FieldText(recs[k], c))
                                        THEN "de_default" ELSE "de_text")

\* Two batches have been decoded, one field by de_default and one by
\* de_text.
C20_Witness ==
    /\ error = NoError
    /\ last.op = "deserialize"
    /\ last.batches[1].batch_id > 0
    /\ \E c \in 1..ctx.num_fields :
          \E k, j \in 1..Len(columns[c]) :
              /\ columns[c][k].by = "de_default"
              /\ columns[c][j].by = "de_text"

====
